---- MODULE Spec2Model ----
(***************************************************************************)
(* A model of thumbnailer (src/main.py): one producer process turns the    *)
(* image files of the producer directory into thumbnails and puts them on  *)
(* a bounded multiprocessing Queue, NUM_CONSUMERS consumer processes take  *)
(* them off, write them to the consumer directory and count the writes in  *)
(* a shared, lock-protected Value; main starts and joins the processes.    *)
(*                                                                         *)
(* File names are sequences of character codes (ASCII), so that lower(),   *)
(* endswith(), sorted() and os.path.splitext() are computed as Python      *)
(* computes them.                                                          *)
(***************************************************************************)
EXTENDS Integers, Sequences, FiniteSets, TLC

(* ------------------------------------------------------------------ *)
(* Bounds of the model                                                  *)
(* ------------------------------------------------------------------ *)

\* cpu_count() ranges over 1..MaxCpus
MaxCpus == 3

\* the producer directory holds at most MaxFiles files with an image
\* extension
MaxFiles == 4

(* ------------------------------------------------------------------ *)
(* Program constants                                                    *)
(* ------------------------------------------------------------------ *)

\* Queue(maxsize=NUM_CONSUMERS * 4)
QueueFactor == 4

\* character codes
Dot == 46

\* supported = (".jpg", ".jpeg", ".png", ".bmp", ".tiff", ".webp")
supported ==
    { <<46, 106, 112, 103>>,
      <<46, 106, 112, 101, 103>>,
      <<46, 112, 110, 103>>,
      <<46, 98, 109, 112>>,
      <<46, 116, 105, 102, 102>>,
      <<46, 119, 101, 98, 112>> }

\* "-thumbnail.jpg"
ThumbnailSuffix ==
    <<45, 116, 104, 117, 109, 98, 110, 97, 105, 108, 46, 106, 112, 103>>

(* ------------------------------------------------------------------ *)
(* Pure functions on names                                              *)
(* ------------------------------------------------------------------ *)

\* str.lower() on ASCII: 'A'..'Z' -> 'a'..'z'
LowerChar(c) == IF c >= 65 /\ c <= 90 THEN c + 32 ELSE c

Lower(s) == [i \in 1..Len(s) |-> LowerChar(s[i])]

\* s.endswith(suf)
EndsWith(s, suf) ==
    /\ Len(suf) <= Len(s)
    /\ SubSeq(s, Len(s) - Len(suf) + 1, Len(s)) = suf

\* s.endswith(tuple)
EndsWithAny(s, sufs) == \E suf \in sufs : EndsWith(s, suf)

\* s.rfind('.') as a 1-based index, 0 when there is no dot
RFindDot(s) ==
    LET I == {i \in 1..Len(s) : s[i] = Dot}
    IN  IF I = {} THEN 0 ELSE CHOOSE i \in I : \A j \in I : j <= i

\* os.path.splitext(p)[0] for a name with no directory separator:
\* the text before the last dot, unless only dots precede that dot
SplitextRoot(p) ==
    LET d == RFindDot(p)
    IN  IF d > 0 /\ \E i \in 1..(d - 1) : p[i] # Dot
        THEN SubSeq(p, 1, d - 1)
        ELSE p

\* an output name that keeps the source extension
OutNameKeepExt(orig_name) == orig_name \o ThumbnailSuffix

\* out_name = f"{name_wo_ext}-thumbnail.jpg"
OutName(orig_name) == SplitextRoot(orig_name) \o ThumbnailSuffix

\* the opposite order, as of sorted(..., reverse=True)
StrGreater(a, b) ==
    \E k \in 1..(Len(a)) :
        /\ \A i \in 1..(k - 1) : i <= Len(b) /\ a[i] = b[i]
        /\ \/ k = Len(b) + 1
           \/ k <= Len(b) /\ a[k] > b[k]

\* Python's str < str: lexicographic on code points, a proper prefix first
StrLess(a, b) ==
    \E k \in 1..(Len(b)) :
        /\ \A i \in 1..(k - 1) : i <= Len(a) /\ a[i] = b[i]
        /\ \/ k = Len(a) + 1
           \/ k <= Len(a) /\ a[k] < b[k]

RECURSIVE Sorted(_)
\* sorted(S) of a set of distinct names
Sorted(S) ==
    IF S = {} THEN <<>>
    ELSE LET m == CHOOSE x \in S : \A y \in S \ {x} : StrLess(x, y)
         IN  <<m>> \o Sorted(S \ {m})

(* ------------------------------------------------------------------ *)
(* Directory entries the model draws the producer directory from        *)
(* ------------------------------------------------------------------ *)

\* an entry: its name, whether it is a regular file, whether the image
\* library can open, convert, resize and encode it
Entry(n, f, d) == [name |-> n, isfile |-> f, decodable |-> d]

A_jpg == <<97, 46, 106, 112, 103>>      \* "a.jpg"
A_png == <<97, 46, 112, 110, 103>>      \* "a.png"
E_JPG == <<101, 46, 74, 80, 71>>        \* "e.JPG"
Dot_png == <<46, 112, 110, 103>>        \* ".png"
D_jpg == <<100, 46, 106, 112, 103>>     \* "d.jpg"
C_txt == <<99, 46, 116, 120, 116>>      \* "c.txt"
S_png == <<115, 46, 112, 110, 103>>     \* "s.png"

\* the image files a directory may hold
ImageFiles ==
    { Entry(A_jpg, TRUE, TRUE),
      Entry(A_png, TRUE, TRUE),         \* same stem as a.jpg
      Entry(E_JPG, TRUE, TRUE),         \* upper-case extension
      Entry(Dot_png, TRUE, TRUE),       \* nothing before the dot
      Entry(D_jpg, TRUE, FALSE) }       \* a 0-byte file: does not decode

\* the entries every directory holds besides
OtherEntries ==
    { Entry(C_txt, TRUE, TRUE),         \* not an image extension
      Entry(S_png, FALSE, FALSE) }      \* a subdirectory

\* the directories the model draws from
Directories ==
    {OtherEntries \cup S : S \in {X \in SUBSET ImageFiles : Cardinality(X) <= MaxFiles}}

(* ------------------------------------------------------------------ *)
(* State                                                                *)
(* ------------------------------------------------------------------ *)

VARIABLES
    dirExists,          \* os.path.isdir(producer_dir) when main runs
    dir,                \* the entries of the producer directory
    NUM_CONSUMERS,      \* max(1, cpu_count() - 1)
    mainPc,             \* main's position
    mainIdx,            \* main's index in its loops over consumers
    q,                  \* the Queue: entries put and not yet got, oldest first
    counter,            \* counter.value
    lockHolder,         \* the consumer holding counter.get_lock(), 0 if free
    pPc,                \* the producer's position
    file_list,          \* the producer's sorted list of eligible names
    pIdx,               \* the producer's index in file_list
    sent,               \* sentinels the producer has put
    cPc,                \* each consumer's position
    item,               \* the item each consumer is working on
    tmp,                \* each consumer's read of counter.value in +=
    consumerDirExists,  \* the consumer directory exists
    outFiles,           \* names this run created in the consumer directory
    enqueued,           \* history: every entry put, in order
    dequeued,           \* history: every entry got, in order
    sentinels,          \* history: the sentinels each consumer has got
    okWrites,           \* history: names of the items whose write succeeded
    failedWrites,       \* history: names of the items whose write failed
    reported,           \* the count main printed, -1 before that
    run,                \* which execution of the program this is: 1 or 2
    first               \* in the second execution: what the first one left

vars ==
    << dirExists, dir, NUM_CONSUMERS, mainPc, mainIdx, q, counter, lockHolder,
       pPc, file_list, pIdx, sent, cPc, item, tmp, consumerDirExists,
       outFiles, enqueued, dequeued, sentinels, okWrites, failedWrites,
       reported, run, first >>

mainVars == << mainPc, mainIdx, reported >>
prodVars == << pPc, file_list, pIdx, sent >>
consVars == << cPc, item, tmp >>
fsVars == << consumerDirExists, outFiles >>
histVars == << enqueued, dequeued, sentinels, okWrites, failedWrites >>
\* what no step of an execution changes: the producer directory, the
\* machine, and which execution this is
envVars == << dirExists, dir, NUM_CONSUMERS, run, first >>

\* the sentinel None, and the tuple (fname, img_bytes); the bytes are opaque
\* to the pipeline and are left out
None == [kind |-> "None", fname |-> <<>>]
WorkItem(fname) == [kind |-> "work", fname |-> fname]

\* the value of a consumer's item outside an iteration: unbound before the
\* first get, and dead from the end of an iteration to the next get
Unbound == [kind |-> "unbound", fname |-> <<>>]

Max(a, b) == IF a >= b THEN a ELSE b

\* NUM_CONSUMERS = max(1, cpu_count() - 1)
NumConsumersOf(cpus) == Max(1, cpus - 1)

MaxConsumers == NumConsumersOf(MaxCpus)

Consumers == 1..NUM_CONSUMERS

\* Queue(maxsize=NUM_CONSUMERS * 4)
Maxsize == NUM_CONSUMERS * QueueFactor

\* a queue made without maxsize: put never blocks
CanPutUnbounded == TRUE

\* Queue.put blocks while the queue is full, Queue.get while it is empty
CanPut == Len(q) < Maxsize
CanGet == Len(q) > 0

\* a get that leaves the entry it returns on the queue
QRestPeek(queue) == queue

\* what Queue.get leaves in the queue: all but the oldest entry
QRest(queue) == Tail(queue)

\* a producer that puts one sentinel too few
SentinelCountShort == NUM_CONSUMERS - 1

\* a producer that puts one sentinel too many
SentinelCountExtra == NUM_CONSUMERS + 1

\* range(NUM_CONSUMERS): the number of sentinels the producer puts
SentinelCount == NUM_CONSUMERS

\* the filter of the listing: a regular file whose lower-cased name ends
\* with a supported extension
Eligible(e) == e.isfile /\ EndsWithAny(Lower(e.name), supported)

\* file_list = sorted([f for f in os.listdir(producer_dir) if ...])
FileList(d) == Sorted({e.name : e \in {x \in d : Eligible(x)}})

\* whether Image.open .. img.save succeed on the file of that name
Decodable(fname) == \E e \in dir : e.name = fname /\ e.decodable

(* ------------------------------------------------------------------ *)
(* Initial state                                                        *)
(* ------------------------------------------------------------------ *)

Init ==
    /\ dirExists \in BOOLEAN
    /\ dir \in (IF dirExists THEN Directories ELSE {{}})
    /\ NUM_CONSUMERS \in {NumConsumersOf(c) : c \in 1..MaxCpus}
    /\ mainPc = "check"
    /\ mainIdx = 0
    /\ q = <<>>
    /\ counter = 0
    /\ lockHolder = 0
    /\ pPc = "idle"
    /\ file_list = <<>>
    /\ pIdx = 0
    /\ sent = 0
    /\ cPc = [i \in Consumers |-> "idle"]
    /\ item = [i \in Consumers |-> Unbound]
    /\ tmp = [i \in Consumers |-> 0]
    /\ consumerDirExists \in BOOLEAN
    /\ outFiles = {}
    /\ enqueued = <<>>
    /\ dequeued = <<>>
    /\ sentinels = [i \in Consumers |-> 0]
    /\ okWrites = {}
    /\ failedWrites = {}
    /\ reported = -1
    /\ run = 1
    /\ first = [out |-> {}, count |-> -1]

(* ------------------------------------------------------------------ *)
(* main                                                                 *)
(* ------------------------------------------------------------------ *)

\* a main that does not check the producer directory
AfterCheckAlways(exists) == "start_p"

\* if not os.path.isdir(producer_dir): print(...); return
AfterCheck(exists) == IF exists THEN "start_p" ELSE "returned"

\* a counter that outlives the execution that created it
NewCounterKept == counter

\* counter = Value('i', 0)
NewCounter == 0

\* if not os.path.isdir(producer_dir): print; return
\* else q = Queue(maxsize=NUM_CONSUMERS * 4); counter = Value('i', 0)
MainCheck ==
    /\ mainPc = "check"
    /\ mainPc' = AfterCheck(dirExists)
    /\ IF AfterCheck(dirExists) = "start_p"
       THEN /\ q' = <<>>
            /\ counter' = NewCounter
       ELSE UNCHANGED << q, counter >>
    /\ UNCHANGED << mainIdx, reported, lockHolder, prodVars, consVars,
                    fsVars, histVars, envVars >>

\* p.start()
MainStartProducer ==
    /\ mainPc = "start_p"
    /\ pPc' = "list"
    /\ mainPc' = "start_c"
    /\ mainIdx' = 1
    /\ UNCHANGED << reported, q, counter, lockHolder, file_list, pIdx, sent,
                    consVars, fsVars, histVars, envVars >>

\* for c in consumers: c.start()
MainStartConsumer ==
    /\ mainPc = "start_c"
    /\ cPc' = [cPc EXCEPT ![mainIdx] = "makedirs"]
    /\ IF mainIdx = NUM_CONSUMERS
       THEN mainPc' = "join_p" /\ mainIdx' = 0
       ELSE mainPc' = "start_c" /\ mainIdx' = mainIdx + 1
    /\ UNCHANGED << reported, q, counter, lockHolder, prodVars, item, tmp,
                    fsVars, histVars, envVars >>

\* a join that does not wait
ExitedAlways(pc) == TRUE

\* a join that returns only for a worker that returned from its function
ExitedCleanly(pc) == pc \in {"done", "stopped"}

\* join() returns once the process has exited: its function returned, or
\* an exception ended it
Exited(pc) == pc \in {"done", "stopped", "crashed"}

\* p.join(): returns once the producer process has ended
MainJoinProducer ==
    /\ mainPc = "join_p"
    /\ Exited(pPc)
    /\ mainPc' = "join_c"
    /\ mainIdx' = 1
    /\ UNCHANGED << reported, q, counter, lockHolder, prodVars, consVars,
                    fsVars, histVars, envVars >>

\* for c in consumers: c.join()
MainJoinConsumer ==
    /\ mainPc = "join_c"
    /\ Exited(cPc[mainIdx])
    /\ IF mainIdx = NUM_CONSUMERS
       THEN mainPc' = "report" /\ mainIdx' = 0
       ELSE mainPc' = "join_c" /\ mainIdx' = mainIdx + 1
    /\ UNCHANGED << reported, q, counter, lockHolder, prodVars, consVars,
                    fsVars, histVars, envVars >>

\* print(f"All done. Thumbnails converted and saved: {counter.value}")
MainReport ==
    /\ mainPc = "report"
    /\ reported' = counter
    /\ mainPc' = "done"
    /\ UNCHANGED << mainIdx, q, counter, lockHolder, prodVars, consVars,
                    fsVars, histVars, envVars >>

Main ==
    \/ MainCheck
    \/ MainStartProducer
    \/ MainStartConsumer
    \/ MainJoinProducer
    \/ MainJoinConsumer
    \/ MainReport

(* ------------------------------------------------------------------ *)
(* producer_task                                                        *)
(* ------------------------------------------------------------------ *)

\* where the producer goes after the file at index i: the next file, or
\* the loop over the sentinels
AfterFile(list, i) == IF i >= Len(list) THEN "sentinel" ELSE "loop"

\* a producer whose loop ends at the first file that fails
OnThumbnailErrorBreak(list, i) == "sentinel"

\* except Exception as e: print(...): the producer goes on after file i
OnThumbnailError(list, i) == AfterFile(list, i)

\* file_list = sorted([...os.listdir(producer_dir)...]); os.listdir raises
\* when the directory has gone or cannot be read, and nothing catches it
ProducerList ==
    /\ pPc = "list"
    /\ \/ /\ file_list' = FileList(dir)
          /\ pIdx' = 1
          /\ pPc' = AfterFile(FileList(dir), 0)
       \/ /\ pPc' = "crashed"
          /\ UNCHANGED << file_list, pIdx >>
    /\ UNCHANGED << sent, mainVars, q, counter, lockHolder, consVars, fsVars,
                    histVars, envVars >>

\* for fname in file_list: try: Image.open .. img.save(buf) ..
\* except Exception: print: a file that fails is skipped
ProducerThumbnail ==
    /\ pPc = "loop"
    /\ IF Decodable(file_list[pIdx])
       THEN /\ pPc' = "put"
            /\ UNCHANGED pIdx
       ELSE /\ pPc' = OnThumbnailError(file_list, pIdx)
            /\ pIdx' = pIdx + 1
    /\ UNCHANGED << file_list, sent, mainVars, q, counter, lockHolder,
                    consVars, fsVars, histVars, envVars >>

\* q.put((fname, buf.read()))
ProducerPut ==
    /\ pPc = "put"
    /\ CanPut
    /\ q' = Append(q, WorkItem(file_list[pIdx]))
    /\ enqueued' = Append(enqueued, WorkItem(file_list[pIdx]))
    /\ pPc' = AfterFile(file_list, pIdx)
    /\ pIdx' = pIdx + 1
    /\ UNCHANGED << file_list, sent, mainVars, counter, lockHolder, consVars,
                    fsVars, dequeued, sentinels, okWrites, failedWrites, envVars >>

\* for _ in range(NUM_CONSUMERS): q.put(None)
ProducerSentinel ==
    /\ pPc = "sentinel"
    /\ CanPut
    /\ q' = Append(q, None)
    /\ enqueued' = Append(enqueued, None)
    /\ sent' = sent + 1
    /\ pPc' = IF sent + 1 >= SentinelCount THEN "done" ELSE "sentinel"
    /\ UNCHANGED << file_list, pIdx, mainVars, counter, lockHolder, consVars,
                    fsVars, dequeued, sentinels, okWrites, failedWrites, envVars >>

Producer ==
    \/ ProducerList
    \/ ProducerThumbnail
    \/ ProducerPut
    \/ ProducerSentinel

(* ------------------------------------------------------------------ *)
(* consumer_task                                                        *)
(* ------------------------------------------------------------------ *)

\* os.makedirs(consumer_dir, exist_ok=True): nothing to do when the
\* directory exists; otherwise it is created, or the call raises (the path
\* is a file, no permission), and being outside any try that ends the
\* process
ConsumerMakedirs(i) ==
    /\ cPc[i] = "makedirs"
    /\ \/ /\ consumerDirExists' = TRUE
          /\ cPc' = [cPc EXCEPT ![i] = "get"]
       \/ /\ ~consumerDirExists
          /\ cPc' = [cPc EXCEPT ![i] = "crashed"]
          /\ UNCHANGED consumerDirExists
    /\ UNCHANGED << item, tmp, outFiles, mainVars, q, counter, lockHolder,
                    prodVars, histVars, envVars >>

\* a consumer that goes on to the next get on a sentinel
AfterGetNoBreak(entry) == IF entry = None THEN "get" ELSE "write"

\* a counter that is not updated
IncrementedNot(v) == v

\* a counter that counts down
IncrementedDown(v) == v - 1

\* if item is None: break, else the try block
AfterGet(entry) == IF entry = None THEN "stopped" ELSE "write"

\* a consumer that a failed write ends
OnWriteErrorRaise == "crashed"

\* except Exception as e: print(...): the consumer goes back to q.get()
OnWriteError == "get"

\* counter.value += 1
Incremented(v) == v + 1

\* item = q.get(); if item is None: break
ConsumerGet(i) ==
    /\ cPc[i] = "get"
    /\ CanGet
    /\ q' = QRest(q)
    /\ dequeued' = Append(dequeued, Head(q))
    /\ item' = [item EXCEPT ![i] = Head(q)]
    /\ cPc' = [cPc EXCEPT ![i] = AfterGet(Head(q))]
    /\ sentinels' = [sentinels EXCEPT ![i] = IF Head(q) = None THEN @ + 1 ELSE @]
    /\ UNCHANGED << tmp, mainVars, counter, lockHolder, prodVars, fsVars,
                    enqueued, okWrites, failedWrites, envVars >>

\* with open(out_path, "wb") as f: f.write(img_bytes)
\* open may fail (no file), write may fail (the file is there, truncated);
\* except Exception: print, and the loop goes on
ConsumerWrite(i) ==
    /\ cPc[i] = "write"
    /\ \/ /\ outFiles' = outFiles \cup {OutName(item[i].fname)}
          /\ okWrites' = okWrites \cup {item[i].fname}
          /\ cPc' = [cPc EXCEPT ![i] = "lock"]
          /\ UNCHANGED << failedWrites, item >>
       \/ /\ outFiles' = outFiles \cup {OutName(item[i].fname)}
          /\ failedWrites' = failedWrites \cup {item[i].fname}
          /\ cPc' = [cPc EXCEPT ![i] = OnWriteError]
          /\ item' = [item EXCEPT ![i] = Unbound]
          /\ UNCHANGED okWrites
       \/ /\ failedWrites' = failedWrites \cup {item[i].fname}
          /\ cPc' = [cPc EXCEPT ![i] = OnWriteError]
          /\ item' = [item EXCEPT ![i] = Unbound]
          /\ UNCHANGED << outFiles, okWrites >>
    /\ UNCHANGED << tmp, consumerDirExists, mainVars, q, counter,
                    lockHolder, prodVars, enqueued, dequeued, sentinels, envVars >>

\* an increment that does not wait for the lock
CanAcquireAlways(holder) == TRUE

\* counter.get_lock() is acquired only when no process holds it
CanAcquire(holder) == holder = 0

\* with counter.get_lock():
ConsumerLock(i) ==
    /\ cPc[i] = "lock"
    /\ CanAcquire(lockHolder)
    /\ lockHolder' = i
    /\ cPc' = [cPc EXCEPT ![i] = "read"]
    /\ UNCHANGED << item, tmp, mainVars, q, counter, prodVars, fsVars,
                    histVars, envVars >>

\* counter.value += 1, the read
ConsumerRead(i) ==
    /\ cPc[i] = "read"
    /\ tmp' = [tmp EXCEPT ![i] = counter]
    /\ cPc' = [cPc EXCEPT ![i] = "store"]
    /\ UNCHANGED << item, mainVars, q, counter, lockHolder, prodVars, fsVars,
                    histVars, envVars >>

\* counter.value += 1, the store
ConsumerStore(i) ==
    /\ cPc[i] = "store"
    /\ counter' = Incremented(tmp[i])
    /\ tmp' = [tmp EXCEPT ![i] = 0]
    /\ cPc' = [cPc EXCEPT ![i] = "unlock"]
    /\ UNCHANGED << item, mainVars, q, lockHolder, prodVars, fsVars,
                    histVars, envVars >>

\* leaving the with block releases the lock; print; back to q.get()
ConsumerUnlock(i) ==
    /\ cPc[i] = "unlock"
    /\ lockHolder' = IF lockHolder = i THEN 0 ELSE lockHolder
    /\ cPc' = [cPc EXCEPT ![i] = "get"]
    /\ item' = [item EXCEPT ![i] = Unbound]
    /\ UNCHANGED << tmp, mainVars, q, counter, prodVars, fsVars,
                    histVars, envVars >>

Consumer(i) ==
    \/ ConsumerMakedirs(i)
    \/ ConsumerGet(i)
    \/ ConsumerWrite(i)
    \/ ConsumerLock(i)
    \/ ConsumerRead(i)
    \/ ConsumerStore(i)
    \/ ConsumerUnlock(i)

(* ------------------------------------------------------------------ *)
(* Specifications                                                       *)
(* ------------------------------------------------------------------ *)

Next ==
    \/ Main
    \/ Producer
    \/ \E i \in Consumers : Consumer(i)

Spec == Init /\ [][Next]_vars

\* The program is executed a second time, on the same producer directory
\* and the same machine, after an execution in which every consumer ran
\* until its sentinel and no write failed.  The consumer directory and its files stay;
\* everything else belongs to the first process and is gone: main starts
\* again at line 69, no worker exists, and q and counter are not created
\* before lines 77-78 (until then the variables keep their last value).
\* first records the names the first execution wrote and the count it
\* printed.
Rerun ==
    /\ run = 1
    /\ mainPc = "done"
    /\ \A i \in Consumers : cPc[i] = "stopped"
    /\ failedWrites = {}
    /\ run' = 2
    /\ first' = [out |-> outFiles, count |-> reported]
    /\ mainPc' = "check"
    /\ mainIdx' = 0
    /\ reported' = -1
    /\ pPc' = "idle"
    /\ file_list' = <<>>
    /\ pIdx' = 0
    /\ sent' = 0
    /\ cPc' = [i \in Consumers |-> "idle"]
    /\ item' = [i \in Consumers |-> Unbound]
    /\ tmp' = [i \in Consumers |-> 0]
    /\ outFiles' = {}
    /\ enqueued' = <<>>
    /\ dequeued' = <<>>
    /\ sentinels' = [i \in Consumers |-> 0]
    /\ okWrites' = {}
    /\ failedWrites' = {}
    /\ UNCHANGED << q, counter, lockHolder, consumerDirExists, dirExists,
                    dir, NUM_CONSUMERS >>

NextRerun == Next \/ Rerun

SpecRerun == Init /\ [][NextRerun]_vars

\* the operating system schedules every process that can take a step
FairSpec ==
    /\ Spec
    /\ WF_vars(Main)
    /\ WF_vars(Producer)
    /\ \A i \in 1..MaxConsumers : WF_vars(i \in Consumers /\ Consumer(i))

(* ------------------------------------------------------------------ *)
(* Vocabulary of the properties                                         *)
(* ------------------------------------------------------------------ *)

\* the names of the universe that are valid inputs: regular files with a
\* recognised extension that decode
ValidUniverse == {A_jpg, A_png, E_JPG, Dot_png}

\* the output name expected for each valid input, written out:
\* "a-thumbnail.jpg", "a-thumbnail.jpg", "e-thumbnail.jpg" and
\* ".png-thumbnail.jpg" (the stem of ".png" is ".png")
ExpectedThumb(f) ==
    CASE f = A_jpg -> <<97, 45, 116, 104, 117, 109, 98, 110, 97, 105, 108, 46, 106, 112, 103>>
      [] f = A_png -> <<97, 45, 116, 104, 117, 109, 98, 110, 97, 105, 108, 46, 106, 112, 103>>
      [] f = E_JPG -> <<101, 45, 116, 104, 117, 109, 98, 110, 97, 105, 108, 46, 106, 112, 103>>
      [] f = Dot_png -> <<46, 112, 110, 103, 45, 116, 104, 117, 109, 98, 110, 97, 105, 108, 46, 106, 112, 103>>
      [] OTHER -> <<>>

\* the entries of a sequence, as a set
Range(seq) == {seq[k] : k \in 1..Len(seq)}

\* the names of the work items in a sequence of queue entries
WorkNames(seq) == {seq[k].fname : k \in {j \in 1..Len(seq) : seq[j] # None}}

\* the valid files of the producer directory, and their number K
ValidNames == {e.name : e \in dir} \cap ValidUniverse
K == Cardinality(ValidNames)

\* the number of sentinels / of work items in a sequence of queue entries
RECURSIVE CountNone(_)
CountNone(seq) ==
    IF seq = <<>> THEN 0
    ELSE (IF Head(seq) = None THEN 1 ELSE 0) + CountNone(Tail(seq))

CountWork(seq) == Len(seq) - CountNone(seq)

ProducerFinished == pPc = "done"
AllStopped == \A i \in Consumers : cPc[i] = "stopped"
PipelineComplete == ProducerFinished /\ AllStopped

\* the listing succeeded and every consumer is in (or through) its loop:
\* the spec's assumption that no worker exits early
ProducerRunning == pPc \in {"loop", "put", "sentinel", "done"}
InLoop(i) ==
    cPc[i] \in {"get", "write", "lock", "read", "store", "unlock", "stopped"}
AllInLoop == \A i \in Consumers : InLoop(i)
NoEarlyExit ==
    /\ pPc # "crashed"
    /\ \A i \in Consumers : cPc[i] # "crashed"

\* a consumer between its successful write and the store of the increment
Pending(i) == cPc[i] \in {"lock", "read", "store"}

\* a consumer that holds a work item
Holding(i) == cPc[i] \in {"write", "lock", "read", "store", "unlock"}

(* ------------------------------------------------------------------ *)
(* C1                                                                   *)
(* ------------------------------------------------------------------ *)

C2_Original == (mainPc = "done" /\ AllStopped) => reported = K

\* C2, amended: the count main reads after joining all workers is the
\* number of work items whose write succeeded, all of them valid inputs;
\* when every consumer ran until its sentinel it is K minus the number of
\* failed writes, so exactly K when no write fails.
C2_Conservation ==
    mainPc = "done" =>
        /\ reported = Cardinality(okWrites)
        /\ okWrites \subseteq ValidNames
        /\ AllStopped => reported = K - Cardinality(failedWrites)
        /\ (AllStopped /\ failedWrites = {}) => reported = K

\* a complete run of two consumers over valid and invalid files in which
\* a write failed and another succeeded
C2_Witness ==
    /\ mainPc = "done"
    /\ AllStopped
    /\ NUM_CONSUMERS = 2
    /\ Len(file_list) > K
    /\ failedWrites # {}
    /\ reported >= 2

(* ------------------------------------------------------------------ *)
(* C3                                                                   *)
(* ------------------------------------------------------------------ *)

\* C3: the producer never puts more than NUM_CONSUMERS sentinels and has put
\* exactly NUM_CONSUMERS when it finishes; each is put alone, by a put on a
\* queue that is not full; the first is put only after every file of the
\* list was put or skipped (the work items enqueued are then exactly the
\* valid files), and no work item follows a sentinel on the queue.
C3_Sentinels ==
    /\ [](/\ CountNone(enqueued) = sent
          /\ sent <= NUM_CONSUMERS
          /\ pPc = "done" => sent = NUM_CONSUMERS
          /\ sent > 0 => /\ pIdx = Len(file_list) + 1
                         /\ WorkNames(enqueued) = ValidNames
          /\ \A a, b \in 1..Len(enqueued) :
                (a < b /\ enqueued[a] = None) => enqueued[b] = None)
    /\ [][CountNone(enqueued') # CountNone(enqueued) =>
            /\ Len(q) < Maxsize
            /\ enqueued' = Append(enqueued, None)
            /\ q' = Append(q, None)]_vars

\* the producer has finished a list with a file it skipped, for two
\* consumers
C3_Witness ==
    /\ pPc = "done"
    /\ NUM_CONSUMERS = 2
    /\ sent = 2
    /\ K >= 1
    /\ Len(file_list) > K

(* ------------------------------------------------------------------ *)
(* C4                                                                   *)
(* ------------------------------------------------------------------ *)

\* C4: a consumer has dequeued one sentinel when it has stopped and none
\* before; the sentinels dequeued are as many as the stopped consumers; a
\* stopped consumer takes no further step (no get, write or increment);
\* a consumer that entered its loop ends only on its sentinel.
C4_OneSentinelEach ==
    /\ [](/\ \A i \in Consumers :
                sentinels[i] = (IF cPc[i] = "stopped" THEN 1 ELSE 0)
          /\ CountNone(dequeued) =
                Cardinality({i \in Consumers : cPc[i] = "stopped"})
          /\ mainPc = "done" =>
                \A i \in Consumers : cPc[i] \in {"stopped", "crashed"})
    /\ [][\A i \in Consumers :
            /\ cPc[i] = "stopped" =>
                /\ ~Consumer(i)
                /\ cPc'[i] = "stopped"
                /\ item'[i] = None
            /\ InLoop(i) => InLoop(i)']_vars

\* two consumers have each taken their sentinel after work was done
C4_Witness ==
    /\ NUM_CONSUMERS = 2
    /\ AllStopped
    /\ CountWork(dequeued) >= 2
    /\ counter >= 1

(* ------------------------------------------------------------------ *)
(* C5                                                                   *)
(* ------------------------------------------------------------------ *)

\* C5: the queue never holds more than 4 * NUM_CONSUMERS entries, which is
\* the number of entries put and not yet got; a put happens only on a
\* queue with fewer entries than that, a get only on a non-empty queue.
C5_QueueBound ==
    /\ [](/\ Len(q) <= 4 * NUM_CONSUMERS
          /\ Len(enqueued) - Len(dequeued) = Len(q)
          /\ Len(enqueued) - Len(dequeued) <= 4 * NUM_CONSUMERS)
    /\ [][/\ enqueued' # enqueued => Len(q) < 4 * NUM_CONSUMERS
          /\ dequeued' # dequeued => Len(q) >= 1]_vars

\* the producer waits to put on a full queue that a consumer is about to
\* take from
C5_Witness ==
    /\ Len(q) = 4 * NUM_CONSUMERS
    /\ pPc \in {"put", "sentinel"}
    /\ \E i \in Consumers : cPc[i] = "get"

(* ------------------------------------------------------------------ *)
(* C6                                                                   *)
(* ------------------------------------------------------------------ *)

\* C6: the entries got followed by the entries still queued are the entries
\* put, in order (nothing lost, nothing taken twice); no file is put twice;
\* a work item held by a consumer was dequeued and is held by no other
\* consumer; when the producer has finished and all consumers have stopped
\* the queue is empty and every work item put was got exactly once.
C6_NoLossNoDup ==
    /\ dequeued \o q = enqueued
    /\ \A a, b \in 1..Len(enqueued) :
          (a # b /\ enqueued[a] # None) => enqueued[a] # enqueued[b]
    /\ \A i \in Consumers :
          Holding(i) =>
              /\ item[i] \in Range(dequeued)
              /\ item[i] # None
              /\ \A j \in Consumers \ {i} : Holding(j) => item[j] # item[i]
    /\ PipelineComplete =>
          /\ q = <<>>
          /\ WorkNames(dequeued) = WorkNames(enqueued)
          /\ CountWork(dequeued) = Cardinality(WorkNames(enqueued))

\* a complete run in which two consumers shared three work items or more
C6_Witness ==
    /\ PipelineComplete
    /\ NUM_CONSUMERS = 2
    /\ CountWork(dequeued) >= 3

(* ------------------------------------------------------------------ *)
(* C7                                                                   *)
(* ------------------------------------------------------------------ *)

\* C7: after a run that main completed with every consumer stopped on its
\* sentinel and no write failed, the names written in the consumer directory
\* are exactly the expected thumbnail names of the valid input files; and at
\* any time every name written is the thumbnail name of a dequeued work
\* item, which is a valid input file.
C7_OutputSet ==
    /\ (mainPc = "done" /\ AllStopped /\ failedWrites = {}) =>
          outFiles = {ExpectedThumb(f) : f \in ValidNames}
    /\ outFiles \subseteq {ExpectedThumb(f) : f \in WorkNames(dequeued)}
    /\ WorkNames(dequeued) \subseteq ValidNames

\* a complete run without write failure on a directory that holds valid
\* files next to entries that are not
C7_Witness ==
    /\ mainPc = "done"
    /\ AllStopped
    /\ failedWrites = {}
    /\ Cardinality(outFiles) >= 2
    /\ Cardinality(dir) > K + 2
    /\ Dot_png \in ValidNames

(* ------------------------------------------------------------------ *)
(* C8                                                                   *)
(* ------------------------------------------------------------------ *)

\* C8: after a run that main completed (every consumer stopped on its
\* sentinel, no write failed), the number of distinct files written in the
\* consumer directory equals the count main read.
C8_OneFilePerInput ==
    (mainPc = "done" /\ AllStopped /\ failedWrites = {}) =>
        Cardinality(outFiles) = reported

(* ------------------------------------------------------------------ *)
(* C9                                                                   *)
(* ------------------------------------------------------------------ *)

\* C9: a step in which a consumer's write fails leaves the counter, the
\* queue and the list of entries put unchanged, records the item as failed
\* and never as written, and takes the consumer back to its get; the
\* counter is the number of successful writes less the increments still
\* under way, and the count main reads is the number of successful writes:
\* the work items dequeued less the failed ones once every consumer stopped.
C9_WriteFailure ==
    /\ [](/\ counter = Cardinality(okWrites)
                        - Cardinality({i \in Consumers : Pending(i)})
          /\ okWrites \cap failedWrites = {}
          /\ mainPc = "done" =>
                /\ reported = Cardinality(okWrites)
                /\ AllStopped =>
                      reported = CountWork(dequeued) - Cardinality(failedWrites))
    /\ [][\A i \in Consumers :
            (cPc[i] = "write" /\ item[i].fname \in failedWrites') =>
                /\ cPc'[i] = "get"
                /\ counter' = counter
                /\ okWrites' = okWrites
                /\ q' = q
                /\ enqueued' = enqueued
                /\ lockHolder' = lockHolder]_vars

\* main has read a count that is positive and smaller than the number of
\* work items dequeued, every consumer having stopped on its sentinel
C9_Witness ==
    /\ mainPc = "done"
    /\ AllStopped
    /\ failedWrites # {}
    /\ reported >= 1
    /\ reported < CountWork(dequeued)

(* ------------------------------------------------------------------ *)
(* C10                                                                  *)
(* ------------------------------------------------------------------ *)

\* C10: a listed file that does not decode is never put on the queue, never
\* written and never counted (the counter stays at most K); the step that
\* fails on it changes neither the queue nor the counter and takes the
\* producer to the next file of the list, or to the sentinels after the
\* last one; the producer never ends before it has put NUM_CONSUMERS
\* sentinels.
C10_ProducerSkips ==
    /\ [](/\ \A f \in Range(file_list) \ ValidUniverse :
                /\ WorkItem(f) \notin Range(enqueued)
                /\ f \notin okWrites \cup failedWrites
          /\ counter <= K
          /\ pPc \in {"loop", "put"} => pIdx \in 1..Len(file_list)
          /\ pPc = "done" => sent = NUM_CONSUMERS)
    /\ [][(/\ pPc = "loop"
            /\ file_list[pIdx] \notin ValidUniverse
            /\ (pPc' # pPc \/ pIdx' # pIdx)) =>
            /\ pIdx' = pIdx + 1
            /\ pPc' = (IF pIdx < Len(file_list) THEN "loop" ELSE "sentinel")
            /\ q' = q
            /\ enqueued' = enqueued
            /\ counter' = counter
            /\ file_list' = file_list]_vars

\* the producer has finished a list in which a valid file came after one
\* that does not decode, and the valid one was put
C10_Witness ==
    /\ pPc = "done"
    /\ \E a, b \in 1..Len(file_list) :
          /\ a < b
          /\ file_list[a] = D_jpg
          /\ WorkItem(file_list[b]) \in Range(enqueued)

(* ------------------------------------------------------------------ *)
(* C11                                                                  *)
(* ------------------------------------------------------------------ *)

\* C11: when the producer directory does not exist, main takes one step, to
\* its return, and nothing else ever happens: no producer or consumer is
\* started, nothing is put on the queue, the consumer directory is not
\* created, no file is written and no count is printed.
C11_MissingDirectory ==
    /\ [](~dirExists =>
            /\ mainPc \in {"check", "returned"}
            /\ pPc = "idle"
            /\ \A i \in Consumers : cPc[i] = "idle"
            /\ q = <<>>
            /\ enqueued = <<>>
            /\ outFiles = {}
            /\ reported = -1)
    /\ [][~dirExists =>
            /\ mainPc = "check"
            /\ mainPc' = "returned"
            /\ consumerDirExists' = consumerDirExists]_vars

\* main has returned on a missing directory, the consumer directory absent
C11_Witness ==
    /\ ~dirExists
    /\ mainPc = "returned"
    /\ ~consumerDirExists

(* ------------------------------------------------------------------ *)
(* C12                                                                  *)
(* ------------------------------------------------------------------ *)

\* the second execution has printed its count, every consumer having run
\* until its sentinel (as in the first execution)
SecondRunComplete ==
    /\ run = 2
    /\ mainPc = "done"
    /\ AllStopped

InWith(i) == cPc[i] \in {"read", "store", "unlock"}

\* C13: the read and the store of counter.value += 1 happen while the
\* consumer holds the counter's lock, at most one consumer is inside the
\* with block at a time, every change of the counter is the store of a
\* lock holder and adds exactly 1, and no increment is lost: the counter
\* equals the number of completed increments (successful writes whose
\* consumer has passed its store).
C13_AtomicIncrement ==
    /\ [](/\ \A i \in Consumers : InWith(i) => lockHolder = i
          /\ Cardinality({i \in Consumers : InWith(i)}) <= 1
          /\ lockHolder \in {0} \cup Consumers
          /\ counter = Cardinality(okWrites)
                        - Cardinality({i \in Consumers : Pending(i)}))
    /\ [][counter' # counter =>
            /\ counter' = counter + 1
            /\ \E i \in Consumers :
                /\ lockHolder = i
                /\ cPc[i] = "store"
                /\ cPc'[i] = "unlock"
                /\ tmp[i] = counter]_vars

\* one consumer is about to store its increment while another waits for
\* the lock, an increment having completed before
C13_Witness ==
    /\ NUM_CONSUMERS >= 2
    /\ counter >= 1
    /\ \E i, j \in Consumers :
        /\ i # j
        /\ cPc[i] = "store"
        /\ lockHolder = i
        /\ cPc[j] = "lock"

(* ------------------------------------------------------------------ *)
(* C14                                                                  *)
(* ------------------------------------------------------------------ *)

ExpectedOrder == << Dot_png, A_jpg, A_png, D_jpg, E_JPG >>

\* the names of the work items of a sequence of queue entries, in order
WorkSeq(seq) ==
    LET w == SelectSeq(seq, LAMBDA x : x # None)
    IN  [k \in 1..Len(w) |-> w[k].fname]

\* the sorted eligible files of the directory, and the same without the
\* files whose thumbnail cannot be made
ExpectedList ==
    SelectSeq(ExpectedOrder, LAMBDA f : f \in {e.name : e \in dir})
ExpectedPuts == SelectSeq(ExpectedList, LAMBDA f : f \in ValidUniverse)

IsPrefix(s, t) == Len(s) <= Len(t) /\ SubSeq(t, 1, Len(s)) = s

\* C15: the producer works through the eligible files in sorted name order;
\* the work items it puts are, in order, the sorted eligible files with the
\* failed ones removed (all of them once the producer is at its sentinels);
\* and the entries leave the queue in the order they were put.
C15_EnqueueOrder ==
    /\ pPc \in {"loop", "put", "sentinel", "done"} => file_list = ExpectedList
    /\ IsPrefix(WorkSeq(enqueued), ExpectedPuts)
    /\ pPc \in {"sentinel", "done"} => WorkSeq(enqueued) = ExpectedPuts
    /\ IsPrefix(dequeued, enqueued)
    /\ IsPrefix(WorkSeq(dequeued), ExpectedPuts)

\* three work items or more have left the queue, in a run of two consumers
\* over a directory that also holds a file that does not decode
C15_Witness ==
    /\ NUM_CONSUMERS = 2
    /\ Len(WorkSeq(dequeued)) >= 3
    /\ Len(ExpectedList) > Len(ExpectedPuts)
    /\ pPc = "done"

(* ------------------------------------------------------------------ *)
(* C16                                                                  *)
(* ------------------------------------------------------------------ *)

\* C16: a started consumer is running until it gets a sentinel and stopped
\* from then on: no error in any of its steps ends it, it is stopped
\* exactly when it has got a sentinel, and once stopped it stays stopped.
C16_ConsumerStateMachine ==
    /\ [](\A i \in Consumers :
            /\ cPc[i] # "crashed"
            /\ cPc[i] # "idle" => (cPc[i] = "stopped" <=> sentinels[i] >= 1))
    /\ [][\A i \in Consumers : cPc[i] = "stopped" => cPc'[i] = "stopped"]_vars

(* ------------------------------------------------------------------ *)
(* C17                                                                  *)
(* ------------------------------------------------------------------ *)

\* the consumers that ended without getting a sentinel
EarlyExits == {i \in Consumers : cPc[i] = "crashed"}

\* the producer waits in put on a full queue and no consumer is left
ProducerStuck ==
    /\ pPc \in {"put", "sentinel"}
    /\ Len(q) = QueueFactor * NUM_CONSUMERS
    /\ \A i \in Consumers : cPc[i] \in {"stopped", "crashed"}

C18_CounterChain ==
    /\ [](/\ mainPc \in {"start_p", "start_c"} /\ dequeued = <<>> => counter = 0
          /\ 0 <= counter
          /\ counter <= Cardinality(okWrites)
          /\ Cardinality(okWrites) <= CountWork(dequeued)
          /\ CountWork(dequeued) <= CountWork(enqueued)
          /\ CountWork(enqueued) <= Len(ExpectedList))
    /\ [][counter' >= counter]_vars

\* a state with every link of the chain loose but one: an increment is
\* pending, an item waits in the queue, a file is still to come or failed
C18_Witness ==
    /\ counter >= 1
    /\ counter < Cardinality(okWrites)
    /\ CountWork(dequeued) < CountWork(enqueued)
    /\ CountWork(enqueued) < Len(ExpectedList)

(* ------------------------------------------------------------------ *)
(* C19                                                                  *)
(* ------------------------------------------------------------------ *)

\* C19: the queue always holds work items first and sentinels after them,
\* so once a consumer has got a sentinel no work item is left in the queue;
\* and when every consumer has stopped on its sentinel the queue is empty.
C19_DrainedAtShutdown ==
    /\ \A k \in 1..(Len(q) - 1) : q[k] = None => q[k + 1] = None
    /\ CountNone(dequeued) >= 1 => CountWork(q) = 0
    /\ (\E i \in Consumers : cPc[i] = "stopped") => CountWork(q) = 0
    /\ AllStopped => q = <<>>

\* one of two consumers has stopped on its sentinel while the other still
\* works on an item, the second sentinel waiting in the queue
C19_Witness ==
    /\ NUM_CONSUMERS = 2
    /\ \E i, j \in Consumers :
        /\ cPc[i] = "stopped"
        /\ Holding(j)
    /\ q = << None >>
    /\ CountWork(dequeued) >= 2

(* ------------------------------------------------------------------ *)
(* C20                                                                  *)
(* ------------------------------------------------------------------ *)

\* C20: once main has started the workers, the producer does not end
\* before it has put its N sentinels, also when listing the directory
\* fails; and the run terminates: as long as no consumer has exited early
\* and main has not printed its count, some process can take a step.
C20_ProducerAlwaysSignals ==
    /\ pPc \in {"done", "crashed"} => CountNone(enqueued) = NUM_CONSUMERS
    /\ (mainPc \notin {"check", "returned", "done"} /\ EarlyExits = {}) =>
            ENABLED Next

====
